---- MODULE Spec2Model ----
(***************************************************************************)
(* Document service of backend/server-vercel.js.  The file holds two       *)
(* servers: the in-memory one (lines 1-156: the array `documents` and the  *)
(* counter `nextId`) and the persistent one (lines 157-407: a SQLite table *)
(* `documents` and the uploads directory).  `variant` selects which of the *)
(* two is running.                                                         *)
(*                                                                         *)
(* Node runs every handler and every callback to completion on one thread, *)
(* so each handler/callback is one action.  A SQLite statement (db.run,    *)
(* db.get, db.all) runs on the database thread some time after it was      *)
(* issued and its callback runs some time after that, so the statement and *)
(* its callback are separate actions, and steps of different requests      *)
(* interleave.  The arrival of a request changes nothing any other request *)
(* can read, so it is merged with the first step of its handling.  Of the  *)
(* requests that were answered the state keeps the last one, `last`.       *)
(***************************************************************************)
EXTENDS Integers, Sequences, FiniteSets, TLC

\* ------------------------------------------------------------------ bounds
\* Requests received in a run, and requests being handled at the same time.
MaxReqs == 3
MaxInFlight == 2

\* Store operations that fail in a run.
MaxFaults == 1

Reqs == 1..MaxInFlight

\* ------------------------------------------------------------ JS helpers
DigitChars == <<"0", "1", "2", "3", "4", "5", "6", "7", "8", "9">>

IsDigit(c) == \E i \in 1..10 : DigitChars[i] = c

DigitVal(c) == (CHOOSE i \in 1..10 : DigitChars[i] = c) - 1

\* NaN, the value of parseInt on a string with no leading digit.  No id and
\* no size equals it.
NaN == -1

RECURSIVE ParseDigits(_, _, _)
ParseDigits(s, i, acc) ==
  IF i > Len(s) \/ ~IsDigit(s[i]) THEN acc
  ELSE ParseDigits(s, i + 1, acc * 10 + DigitVal(s[i]))

\* parseInt(s) on strings of digits and letters: the leading digits, NaN if
\* there is none.
ParseInt(s) ==
  IF Len(s) = 0 \/ ~IsDigit(s[1]) THEN NaN ELSE ParseDigits(s, 1, 0)

\* SQLite's comparison `id = ?` of the INTEGER column with a bound text
\* parameter: the text gets NUMERIC affinity, so it equals an id only when
\* the whole text is an integer literal.
SqlInteger(s) ==
  IF Len(s) > 0 /\ \A i \in 1..Len(s) : IsDigit(s[i]) THEN ParseDigits(s, 1, 0)
  ELSE NaN

\* ------------------------------------------------------ upload size limit
DefaultMaxFileSize == 10 * 1024 * 1024

\* parseInt(process.env.MAX_FILE_SIZE) || 10 * 1024 * 1024 : NaN and 0 are
\* falsy.
FileSizeLimit(env) ==
  LET n == ParseInt(env) IN
  IF n = NaN \/ n = 0 THEN DefaultMaxFileSize ELSE n

\* The values of MAX_FILE_SIZE the model starts with: unset, and 2048.
EnvMaxFileSize == {<<>>, <<"2", "0", "4", "8">>}

\* ------------------------------------------------------------ the inputs
\* File contents are opaque: a tag for the bytes and the byte count.
Content(b, n) == [bytes |-> b, size |-> n]

MultipartFile(field, name, mime, c) ==
  [fieldname |-> field, originalname |-> name, mimetype |-> mime, content |-> c]

\* What an upload request carries: no file part (<<>>) or one file part.
UploadInputs ==
  { <<>>,
    <<MultipartFile("document", "a.pdf", "application/pdf", Content("A", 1024))>>,
    <<MultipartFile("document", "a.pdf", "application/pdf", Content("B", 4096))>>,
    <<MultipartFile("document", "big.pdf", "application/pdf",
                    Content("C", DefaultMaxFileSize + 1))>>,
    <<MultipartFile("document", "a.txt", "text/plain", Content("A", 1024))>>,
    <<MultipartFile("file", "a.pdf", "application/pdf", Content("A", 1024))>> }

\* The :id path parameter, as the characters of the string.
IdParams == { <<"1">>, <<"2">>, <<"1", "x">> }

\* ------------------------------------------------------------- responses
Response(status, ok, msg) ==
  [status |-> status, success |-> ok, message |-> msg,
   document |-> <<>>, documents |-> <<>>, body |-> <<>>, disposition |-> <<>>]

NotFound(msg) == Response(404, FALSE, msg)

\* ---------------------------------------------------------------- multer
MulterError(code, msg) == [multer |-> TRUE, code |-> code, message |-> msg]

PlainError(msg) == [multer |-> FALSE, code |-> "", message |-> msg]

\* Variant of FileFilter that lets every type through.
FileFilterAny(file) == file.mimetype = file.mimetype

\* fileFilter: only the declared MIME type decides.
FileFilter(file) == file.mimetype = "application/pdf"

\* upload.single('document') up to the point where bytes would be stored:
\* <<>> when the file part is accepted (or there is none), else the error
\* passed to next().  The field name is checked before fileFilter.
MulterReject(in) ==
  IF in = <<>> THEN <<>>
  ELSE IF in[1].fieldname # "document"
    THEN <<MulterError("LIMIT_UNEXPECTED_FILE", "Unexpected field")>>
  ELSE IF ~FileFilter(in[1])
    THEN <<PlainError("Only PDF files are allowed")>>
  ELSE <<>>

\* Variant of TooLarge that compares with the default instead of the limit
\* the multer instance was given.
TooLargeDefault(in, limit) == in # <<>> /\ in[1].content.size > DefaultMaxFileSize

TooLarge(in, limit) == in # <<>> /\ in[1].content.size > limit

\* The error handling middleware.
ErrorMiddleware(error) ==
  IF error.multer /\ error.code = "LIMIT_FILE_SIZE"
    THEN Response(400, FALSE, "File too large. Maximum size is 10MB.")
  ELSE IF error.message = "Only PDF files are allowed"
    THEN Response(400, FALSE, error.message)
  ELSE Response(500, FALSE,
                IF error.message # "" THEN error.message ELSE "Internal server error")


\* ----------------------------------------------------------------- state
VARIABLES
  variant,       \* "memory" (lines 1-156) or "disk" (lines 157-407)
  maxFileSize,   \* limits.fileSize of the multer instance
  now,           \* the clock (CURRENT_TIMESTAMP, new Date())
  documents,     \* memory: the array `documents`
  nextId,        \* memory: the counter `nextId`
  table,         \* disk: the rows of the SQLite table `documents`
  sqliteSeq,     \* disk: sqlite_sequence.seq of the table (AUTOINCREMENT)
  files,         \* disk: the files of the uploads directory, {[path, content]}
  uniqueSuffix,  \* disk: number of upload file names generated so far
  crashed,       \* the process died of an uncaught exception
  reqs,          \* the requests being handled, in the order of their arrival:
                 \* input, position of the handling, the handler's locals
  last,          \* the request answered last, with its response
  nreq,          \* number of requests received
  assigned,      \* history: the ids given to records with the files they were
                 \* given for, in the order given
  acked,         \* history: the ids whose Delete was answered with success
  faults         \* number of store operations that failed

vars == <<variant, maxFileSize, now, documents, nextId, table, sqliteSeq, files,
          uniqueSuffix, crashed, reqs, last, nreq, assigned, acked, faults>>

memVars == <<documents, nextId>>
diskVars == <<table, sqliteSeq, files, uniqueSuffix>>
envVars == <<variant, maxFileSize, faults>>

\* The ids of the records that exist.
LiveIds ==
  IF variant = "memory" THEN {documents[i].id : i \in DOMAIN documents}
  ELSE {row.id : row \in table}

\* A request: `log` is what its handler wrote with console.error.
NoReq ==
  [op |-> "none", pc |-> "idle", in |-> <<>>, param |-> <<>>, file |-> <<>>,
   row |-> <<>>, lastID |-> 0, resp |-> <<>>, seen |-> {}, listed |-> {},
   log |-> <<>>]

\* The id a :id parameter names: parseInt(req.params.id) in the in-memory
\* variant, the parameter as SQLite compares it in the persistent one.
RequestedId(param) ==
  IF variant = "memory" THEN ParseInt(param) ELSE SqlInteger(param)

\* A request that has just arrived.  History, of the ids the request is
\* about (a Download's id, every id for a List): `seen` are those whose Delete
\* was acknowledged before it arrived, `listed` those whose record existed
\* when it arrived.
NewReq(op, in, param) ==
  LET about == IF op = "download" THEN {RequestedId(param)}
               ELSE IF op = "list" THEN acked
               ELSE {}
  IN [NoReq EXCEPT !.op = op, !.pc = "start", !.in = in, !.param = param,
                   !.seen = acked \cap about, !.listed = LiveIds \cap about]

\* res.json / res.send / the end of the piped stream: the request is
\* answered.
Respond(q, response) == [q EXCEPT !.pc = "done", !.resp = Append(@, response)]

\* reqs without its r-th request.
Remove(s, r) == [i \in 1..(Len(s) - 1) |-> IF i < r THEN s[i] ELSE s[i + 1]]

\* Request r of those being handled is answered.
Answer(r, response) ==
  /\ last' = Respond(reqs[r], response)
  /\ reqs' = Remove(reqs, r)

\* Request r of those being handled is at position pc of its handler.
At(r, pc) == ~crashed /\ r \in DOMAIN reqs /\ reqs[r].pc = pc

Init ==
  /\ variant \in {"memory", "disk"}
  /\ maxFileSize \in {FileSizeLimit(e) : e \in EnvMaxFileSize}
  /\ now = 0
  /\ documents = <<>>
  /\ nextId = 1
  /\ table = {}
  /\ sqliteSeq = 0
  /\ files = {}
  /\ uniqueSuffix = 0
  /\ crashed = FALSE
  /\ reqs = <<>>
  /\ last = NoReq
  /\ nreq = 0
  /\ assigned = <<>>
  /\ acked = {}
  /\ faults = 0

\* A request arrives while the process is alive.
Arrives ==
  /\ ~crashed
  /\ nreq < MaxReqs
  /\ nreq' = nreq + 1

\* A request whose handling takes more than one step joins the requests
\* being handled.
Begin(q) ==
  /\ Len(reqs) < MaxInFlight
  /\ reqs' = Append(reqs, q)

\* A record is stamped: since the last stamp time has stood still (to the
\* clock's resolution) or has moved on.  Only the stamps of records are ever
\* compared, so time moves in these steps alone.
ReadClock(t) == t' \in {t, t + 1}

Assigned(id, f) == [id |-> id, file |-> f]

\* ------------------------------------------------- the in-memory variant
\* req.file of multer.memoryStorage(): size is the number of bytes received.
MemoryFile(f) ==
  [originalname |-> f.originalname, size |-> f.content.size, buffer |-> f.content]

\* Variant of NewDocument that takes the name of the form field for the
\* file's name.
NewDocumentFieldName(id, file, t) ==
  [id |-> id, filename |-> "document", filesize |-> file.size,
   buffer |-> file.buffer, created_at |-> t]

\* The object literal of the upload handler.
NewDocument(id, file, t) ==
  [id |-> id, filename |-> file.originalname, filesize |-> file.size,
   buffer |-> file.buffer, created_at |-> t]

\* The metadata a response shows of a document (no buffer).
DocumentInfo(doc) ==
  [id |-> doc.id, filename |-> doc.filename, filesize |-> doc.filesize,
   created_at |-> doc.created_at]

\* documents.map(doc => ({...}))
DocumentList(docs) == [i \in 1..Len(docs) |-> DocumentInfo(docs[i])]

\* Variant of FindIndex that stops at the first document whatever its id.
FindIndexFirst(docs, id) ==
  IF \E i \in 1..Len(docs) : docs[i].id = id THEN 1 ELSE 0

\* Variant of FindIndex whose -1 is used as an index: splice(-1, 1) and
\* at(-1) take the last document.
FindIndexLast(docs, id) ==
  IF \E i \in 1..Len(docs) : docs[i].id = id
    THEN CHOOSE i \in 1..Len(docs) :
           docs[i].id = id /\ \A j \in 1..(i - 1) : docs[j].id # id
  ELSE Len(docs)

\* documents.findIndex(doc => doc.id === id), 1-based; 0 for JS's -1.
FindIndex(docs, id) ==
  IF \E i \in 1..Len(docs) : docs[i].id = id
    THEN CHOOSE i \in 1..Len(docs) :
           docs[i].id = id /\ \A j \in 1..(i - 1) : docs[j].id # id
  ELSE 0

\* documents.splice(index, 1)
Splice(docs, index) ==
  [i \in 1..(Len(docs) - 1) |-> IF i < index THEN docs[i] ELSE docs[i + 1]]

UploadOk(info) ==
  [Response(200, TRUE, "File uploaded successfully") EXCEPT !.document = <<info>>]

ListOk(list) == [Response(200, TRUE, "") EXCEPT !.documents = list]

DownloadOk(filename, bytes) ==
  [Response(200, TRUE, "") EXCEPT !.body = <<bytes>>, !.disposition = <<filename>>]

DeleteOk == Response(200, TRUE, "Document deleted successfully")

NoFileUploaded == Response(400, FALSE, "No file uploaded or invalid file type")

LimitFileSize == MulterError("LIMIT_FILE_SIZE", "File too large")

\* POST /documents/upload, lines 41-69, behind upload.single('document').
MemUpload(in) ==
  /\ variant = "memory"
  /\ Arrives
  /\ ReadClock(now)
  /\ LET q == NewReq("upload", in, <<>>)
         err == MulterReject(in)
     IN
       IF err # <<>> \/ TooLarge(in, maxFileSize) \/ in = <<>>
       THEN /\ now' = now
            /\ last' = Respond(q, IF err # <<>> THEN ErrorMiddleware(err[1])
                                  ELSE IF TooLarge(in, maxFileSize)
                                    THEN ErrorMiddleware(LimitFileSize)
                                  ELSE NoFileUploaded)
            /\ UNCHANGED <<memVars, assigned>>
       ELSE LET file == MemoryFile(in[1])
                document == NewDocument(nextId, file, now')
            IN
            /\ nextId' = nextId + 1
            /\ documents' = Append(documents, document)
            /\ assigned' = Append(assigned, Assigned(document.id, in[1]))
            /\ last' = Respond([q EXCEPT !.lastID = document.id, !.file = <<file>>],
                               UploadOk(DocumentInfo(document)))
  /\ UNCHANGED <<envVars, diskVars, crashed, reqs, acked>>

\* GET /documents, lines 72-84.
MemList ==
  /\ variant = "memory"
  /\ Arrives
  /\ last' = Respond(NewReq("list", <<>>, <<>>), ListOk(DocumentList(documents)))
  /\ UNCHANGED <<envVars, now, memVars, diskVars, crashed, reqs, assigned, acked>>

\* GET /documents/:id, lines 87-101.
MemDownload(param) ==
  /\ variant = "memory"
  /\ Arrives
  /\ LET documentId == ParseInt(param)
         index == FindIndex(documents, documentId)
         q == NewReq("download", <<>>, param)
     IN last' = Respond(q, IF index = 0 THEN NotFound("Document not found")
                           ELSE DownloadOk(documents[index].filename,
                                           documents[index].buffer))
  /\ UNCHANGED <<envVars, now, memVars, diskVars, crashed, reqs, assigned, acked>>

\* DELETE /documents/:id, lines 104-121.
MemDelete(param) ==
  /\ variant = "memory"
  /\ Arrives
  /\ LET documentId == ParseInt(param)
         index == FindIndex(documents, documentId)
         q == NewReq("delete", <<>>, param)
     IN
       IF index = 0
       THEN /\ last' = Respond(q, NotFound("Document not found"))
            /\ UNCHANGED <<documents, acked>>
       ELSE /\ documents' = Splice(documents, index)
            /\ acked' = acked \cup {documentId}
            /\ last' = Respond(q, DeleteOk)
  /\ UNCHANGED <<envVars, now, nextId, diskVars, crashed, reqs, assigned>>

MemNext ==
  \/ \E in \in UploadInputs : MemUpload(in)
  \/ MemList
  \/ \E p \in IdParams : MemDownload(p)
  \/ \E p \in IdParams : MemDelete(p)

\* ------------------------------------------------ the persistent variant
\* diskStorage's filename: uniqueSuffix + '-' + file.originalname, where
\* uniqueSuffix is Date.now() + '-' + Math.round(Math.random() * 1E9).  The
\* suffix is modelled as never repeating: n is the number of names generated
\* before this one.
DiskFileName(n, file) == <<n + 1, file.originalname>>

ExistsSync(fs, path) == \E f \in fs : f.path = path

\* Variant of UnlinkSync that leaves the file where it is.
UnlinkSyncKeep(fs, path) == {f \in fs : f.path = f.path}

\* Variant of UnlinkSync that matches the original name and not the whole
\* generated name.
UnlinkSyncByName(fs, path) == {f \in fs : f.path[2] # path[2]}

UnlinkSync(fs, path) == {f \in fs : f.path # path}

WriteFile(fs, path, content) ==
  UnlinkSync(fs, path) \cup {[path |-> path, content |-> content]}

ReadFile(fs, path) == (CHOOSE f \in fs : f.path = path).content

\* The bytes of a file part that multer lets through to the storage: the
\* part is cut at the limit (busboy's 'limit' event).
Received(content, limit) ==
  IF content.size > limit THEN [content EXCEPT !.size = limit] ELSE content

\* req.file of multer.diskStorage(): path of the written file, bytes written.
DiskFile(f, path, written) ==
  [originalname |-> f.originalname, path |-> path, size |-> written.size]

SetMax(S) == CHOOSE x \in S : \A y \in S : y <= x

\* Variant of AutoIncrement for a plain INTEGER PRIMARY KEY: one more than
\* the largest id in the table now.
AutoIncrementRowid(tbl, seq) == SetMax({0} \cup {row.id : row \in tbl}) + 1

\* The id of INTEGER PRIMARY KEY AUTOINCREMENT: one more than the largest id
\* the table ever held (sqlite_sequence), whatever was deleted since.
AutoIncrement(tbl, seq) == SetMax({seq} \cup {row.id : row \in tbl}) + 1

\* The row INSERT INTO documents (filename, filepath, filesize) creates;
\* created_at defaults to CURRENT_TIMESTAMP.
InsertedRow(id, filename, filepath, filesize, t) ==
  [id |-> id, filename |-> filename, filepath |-> filepath,
   filesize |-> filesize, created_at |-> t]

\* SELECT * FROM documents WHERE id = ? : <<>> or the one row.
SelectById(tbl, param) ==
  IF \E row \in tbl : row.id = SqlInteger(param)
    THEN <<CHOOSE row \in tbl : row.id = SqlInteger(param)>>
  ELSE <<>>

\* Variant of DeleteById that compares the id with the parameter as text: an
\* integer never equals a text, no row matches.
DeleteByIdText(tbl, param) == {row \in tbl : Len(param) >= 0}

\* DELETE FROM documents WHERE id = ?
DeleteById(tbl, param) == {row \in tbl : row.id # SqlInteger(param)}

\* SELECT * FROM documents ORDER BY created_at DESC : every order of the
\* rows in which created_at never increases.  CURRENT_TIMESTAMP counts
\* seconds, and SQL leaves the order of rows with equal keys open.
RECURSIVE SelectOrdered(_)
SelectOrdered(tbl) ==
  IF tbl = {} THEN {<<>>}
  ELSE UNION { {<<first>> \o rest : rest \in SelectOrdered(tbl \ {first})} :
               first \in {row \in tbl :
                            \A other \in tbl : row.created_at >= other.created_at} }

\* POST /documents/upload, lines 224-234: multer (field name, fileFilter,
\* diskStorage) and the handler up to the issue of the INSERT.
DiskUpload(in) ==
  /\ variant = "disk"
  /\ Arrives
  /\ LET q == NewReq("upload", in, <<>>)
         err == MulterReject(in)
     IN
       IF err # <<>> \/ in = <<>>
       THEN /\ last' = Respond(q, IF err # <<>> THEN ErrorMiddleware(err[1])
                                  ELSE NoFileUploaded)
            /\ UNCHANGED <<files, uniqueSuffix, reqs>>
       ELSE LET path == DiskFileName(uniqueSuffix, in[1])
                written == Received(in[1].content, maxFileSize)
            IN
            /\ uniqueSuffix' = uniqueSuffix + 1
            /\ files' = WriteFile(files, path, written)
            /\ Begin([q EXCEPT !.file = <<DiskFile(in[1], path, written)>>,
                               !.pc = IF TooLarge(in, maxFileSize)
                                        THEN "abort" ELSE "insert"])
            /\ UNCHANGED last
  /\ UNCHANGED <<envVars, now, memVars, table, sqliteSeq, crashed, assigned, acked>>

\* multer on LIMIT_FILE_SIZE: the file written so far is removed
\* (diskStorage._removeFile), then the error goes to the error middleware.
DiskAbort(r) ==
  /\ At(r, "abort")
  /\ files' = UnlinkSync(files, reqs[r].file[1].path)
  /\ Answer(r, ErrorMiddleware(LimitFileSize))
  /\ UNCHANGED <<envVars, now, memVars, table, sqliteSeq, uniqueSuffix, crashed,
                 nreq, assigned, acked>>

\* The INSERT of lines 235-237 runs.
DiskInsert(r) ==
  /\ At(r, "insert")
  /\ LET file == reqs[r].file[1]
         id == AutoIncrement(table, sqliteSeq)
     IN
     /\ ReadClock(now)
     /\ table' = table \cup
          {InsertedRow(id, file.originalname, file.path, file.size, now')}
     /\ sqliteSeq' = id
     /\ assigned' = Append(assigned, Assigned(id, reqs[r].in[1]))
     /\ reqs' = [reqs EXCEPT ![r] = [@ EXCEPT !.lastID = id, !.pc = "inserted"]]
  /\ UNCHANGED <<envVars, memVars, files, uniqueSuffix, crashed, last, nreq, acked>>

\* The callback of the INSERT, lines 238-257 (err is null).
DiskUploadCb(r) ==
  /\ At(r, "inserted")
  /\ LET file == reqs[r].file[1] IN
     Answer(r, UploadOk([id |-> reqs[r].lastID, filename |-> file.originalname,
                         filesize |-> file.size, created_at |-> now]))
  /\ UNCHANGED <<envVars, now, memVars, diskVars, crashed, nreq, assigned, acked>>

\* GET /documents, lines 262-263: the SELECT runs.
DiskList ==
  /\ variant = "disk"
  /\ Arrives
  /\ \E rows \in SelectOrdered(table) :
       Begin([NewReq("list", <<>>, <<>>) EXCEPT !.row = rows, !.pc = "listed"])
  /\ UNCHANGED <<envVars, now, memVars, diskVars, crashed, last, assigned, acked>>

\* The callback of the SELECT, lines 263-276 (err is null).
DiskListCb(r) ==
  /\ At(r, "listed")
  /\ Answer(r, ListOk(reqs[r].row))
  /\ UNCHANGED <<envVars, now, memVars, diskVars, crashed, nreq, assigned, acked>>

\* GET /documents/:id and DELETE /documents/:id, lines 280-283 and 317-320:
\* the SELECT by id runs.
DiskGet(op, param) ==
  /\ variant = "disk"
  /\ Arrives
  /\ Begin([NewReq(op, <<>>, param) EXCEPT !.row = SelectById(table, param),
                                           !.pc = "got"])
  /\ UNCHANGED <<envVars, now, memVars, diskVars, crashed, last, assigned, acked>>

\* The callback of Download's SELECT, lines 283-312 (err is null).  After
\* the headers are set the read stream is created; it opens the file later.
DiskDownloadCb(r) ==
  /\ At(r, "got")
  /\ reqs[r].op = "download"
  /\ IF reqs[r].row = <<>>
       THEN Answer(r, NotFound("Document not found"))
     ELSE IF ~ExistsSync(files, reqs[r].row[1].filepath)
       THEN Answer(r, NotFound("File not found on disk"))
     ELSE /\ reqs' = [reqs EXCEPT ![r] = [@ EXCEPT !.pc = "open"]]
          /\ UNCHANGED last
  /\ UNCHANGED <<envVars, now, memVars, diskVars, crashed, nreq, assigned, acked>>

\* fs.createReadStream(filePath).pipe(res): the stream opens the file and
\* sends it.  When the file is gone the stream emits 'error', which has no
\* listener: an uncaught exception ends the process.
DiskStream(r) ==
  /\ At(r, "open")
  /\ LET row == reqs[r].row[1] IN
       IF ExistsSync(files, row.filepath)
       THEN /\ Answer(r, DownloadOk(row.filename, ReadFile(files, row.filepath)))
            /\ UNCHANGED crashed
       ELSE /\ crashed' = TRUE
            /\ UNCHANGED <<reqs, last>>
  /\ UNCHANGED <<envVars, now, memVars, diskVars, nreq, assigned, acked>>

\* The callback of Delete's SELECT, lines 320-340 (err is null): the file
\* is unlinked, then the DELETE is issued.
DiskDeleteCb(r) ==
  /\ At(r, "got")
  /\ reqs[r].op = "delete"
  /\ IF reqs[r].row = <<>>
     THEN /\ Answer(r, NotFound("Document not found"))
          /\ UNCHANGED files
     ELSE /\ files' = IF ExistsSync(files, reqs[r].row[1].filepath)
                        THEN UnlinkSync(files, reqs[r].row[1].filepath)
                      ELSE files
          /\ reqs' = [reqs EXCEPT ![r] = [@ EXCEPT !.pc = "delete"]]
          /\ UNCHANGED last
  /\ UNCHANGED <<envVars, now, memVars, table, sqliteSeq, uniqueSuffix, crashed,
                 nreq, assigned, acked>>

\* The DELETE of line 340 runs.
DiskDeleteRun(r) ==
  /\ At(r, "delete")
  /\ table' = DeleteById(table, reqs[r].param)
  /\ reqs' = [reqs EXCEPT ![r] = [@ EXCEPT !.pc = "deleted"]]
  /\ UNCHANGED <<envVars, now, memVars, sqliteSeq, files, uniqueSuffix, crashed,
                 last, nreq, assigned, acked>>

\* The callback of the DELETE, lines 340-352 (err is null).
DiskDeleteDone(r) ==
  /\ At(r, "deleted")
  /\ Answer(r, DeleteOk)
  /\ acked' = acked \cup {SqlInteger(reqs[r].param)}
  /\ UNCHANGED <<envVars, now, memVars, diskVars, crashed, nreq, assigned>>

DiskNext ==
  \/ \E in \in UploadInputs : DiskUpload(in)
  \/ \E r \in Reqs : DiskAbort(r)
  \/ \E r \in Reqs : DiskInsert(r)
  \/ \E r \in Reqs : DiskUploadCb(r)
  \/ DiskList
  \/ \E r \in Reqs : DiskListCb(r)
  \/ \E op \in {"download", "delete"}, p \in IdParams : DiskGet(op, p)
  \/ \E r \in Reqs : DiskDownloadCb(r)
  \/ \E r \in Reqs : DiskStream(r)
  \/ \E r \in Reqs : DiskDeleteCb(r)
  \/ \E r \in Reqs : DiskDeleteRun(r)
  \/ \E r \in Reqs : DiskDeleteDone(r)

Next == MemNext \/ DiskNext

Spec == Init /\ [][Next]_vars

\* ------------------------------------- the persistent variant, with faults
\* The stores fail: a statement calls back with err set, a file system call
\* throws or a stream emits 'error'.  A statement that fails changes nothing
\* in the table.

\* The message of the error of a file system call on the file, e.g.
\* "EACCES: permission denied, open 'uploads/1-a.pdf'".
FsErrorMessage(path) ==
  "EACCES: permission denied, open 'uploads/" \o ToString(path[1]) \o "-"
    \o path[2] \o "'"

MetadataSaveFailed == Response(500, FALSE, "Failed to save document metadata")

RetrieveFailed == Response(500, FALSE, "Failed to retrieve documents")

DatabaseError == Response(500, FALSE, "Database error")

DeleteFailed == Response(500, FALSE, "Failed to delete document from database")

\* Variant of LogAndAnswer that answers and writes nothing.
AnswerUnlogged(r, response) == Answer(r, response)

\* console.error('Database error:', err), then the response.
LogAndAnswer(r, response) ==
  /\ last' = Respond([reqs[r] EXCEPT !.log = Append(@, "Database error:")], response)
  /\ reqs' = Remove(reqs, r)

\* A store operation fails.
Fault ==
  /\ faults < MaxFaults
  /\ faults' = faults + 1
  /\ UNCHANGED <<variant, maxFileSize>>

\* A statement of request r fails: its callback will get err.
Fails(r, pc) ==
  /\ Fault
  /\ reqs' = [reqs EXCEPT ![r] = [@ EXCEPT !.pc = pc]]

\* POST /documents/upload: diskStorage cannot write the file (the write
\* stream emits 'error'); multer passes the error to the error middleware.
DiskWriteFails(in) ==
  /\ variant = "disk"
  /\ Arrives
  /\ in # <<>>
  /\ MulterReject(in) = <<>>
  /\ LET path == DiskFileName(uniqueSuffix, in[1]) IN
     /\ uniqueSuffix' = uniqueSuffix + 1
     /\ last' = Respond(NewReq("upload", in, <<>>),
                        ErrorMiddleware(PlainError(FsErrorMessage(path))))
  /\ Fault
  /\ UNCHANGED <<now, memVars, table, sqliteSeq, files, crashed, reqs,
                 assigned, acked>>

\* The INSERT of lines 235-237 fails.
DiskInsertFails(r) ==
  /\ At(r, "insert")
  /\ Fails(r, "inserterr")
  /\ UNCHANGED <<now, memVars, diskVars, crashed, last, nreq, assigned, acked>>

\* The callback of the INSERT with err, lines 239-245.
DiskUploadErr(r) ==
  /\ At(r, "inserterr")
  /\ LogAndAnswer(r, MetadataSaveFailed)
  /\ UNCHANGED <<envVars, now, memVars, diskVars, crashed, nreq, assigned, acked>>

\* GET /documents: the SELECT fails.
DiskListFails ==
  /\ variant = "disk"
  /\ Arrives
  /\ Begin([NewReq("list", <<>>, <<>>) EXCEPT !.pc = "listerr"])
  /\ Fault
  /\ UNCHANGED <<now, memVars, diskVars, crashed, last, assigned, acked>>

\* The callback of List's SELECT with err, lines 264-270.
DiskListErr(r) ==
  /\ At(r, "listerr")
  /\ LogAndAnswer(r, RetrieveFailed)
  /\ UNCHANGED <<envVars, now, memVars, diskVars, crashed, nreq, assigned, acked>>

\* GET /documents/:id and DELETE /documents/:id: the SELECT by id fails.
DiskGetFails(op, param) ==
  /\ variant = "disk"
  /\ Arrives
  /\ Begin([NewReq(op, <<>>, param) EXCEPT !.pc = "geterr"])
  /\ Fault
  /\ UNCHANGED <<now, memVars, diskVars, crashed, last, assigned, acked>>

\* The callback of the SELECT by id with err, lines 284-290 and 321-327.
DiskGetErr(r) ==
  /\ At(r, "geterr")
  /\ LogAndAnswer(r, DatabaseError)
  /\ UNCHANGED <<envVars, now, memVars, diskVars, crashed, nreq, assigned, acked>>

\* The read stream of a Download opens the file and then fails to read it:
\* 'error' has no listener, an uncaught exception ends the process.
DiskStreamFails(r) ==
  /\ At(r, "open")
  /\ ExistsSync(files, reqs[r].row[1].filepath)
  /\ crashed' = TRUE
  /\ Fault
  /\ UNCHANGED <<now, memVars, diskVars, reqs, last, nreq, assigned, acked>>

\* The callback of Delete's SELECT, lines 336-338: fs.unlinkSync throws.  The
\* callback runs outside every try and outside Express: an uncaught exception
\* ends the process before the DELETE is issued.
DiskUnlinkThrows(r) ==
  /\ At(r, "got")
  /\ reqs[r].op = "delete"
  /\ reqs[r].row # <<>>
  /\ ExistsSync(files, reqs[r].row[1].filepath)
  /\ crashed' = TRUE
  /\ Fault
  /\ UNCHANGED <<now, memVars, diskVars, reqs, last, nreq, assigned, acked>>

\* The DELETE of line 340 fails.
DiskDeleteFails(r) ==
  /\ At(r, "delete")
  /\ Fails(r, "deleteerr")
  /\ UNCHANGED <<now, memVars, diskVars, crashed, last, nreq, assigned, acked>>

\* The callback of the DELETE with err, lines 341-347.
DiskDeleteErr(r) ==
  /\ At(r, "deleteerr")
  /\ LogAndAnswer(r, DeleteFailed)
  /\ UNCHANGED <<envVars, now, memVars, diskVars, crashed, nreq, assigned, acked>>

\* The failures of operations that change a store: the write of the blob,
\* the INSERT, the unlink, the DELETE; and the callbacks that handle them.
WriteFaults ==
  \/ \E in \in UploadInputs : DiskWriteFails(in)
  \/ \E r \in Reqs : DiskInsertFails(r)
  \/ \E r \in Reqs : DiskUploadErr(r)
  \/ \E r \in Reqs : DiskUnlinkThrows(r)
  \/ \E r \in Reqs : DiskDeleteFails(r)
  \/ \E r \in Reqs : DiskDeleteErr(r)

\* The failures of operations that read a store: the SELECTs and the read
\* of the blob; and the callbacks that handle them.
ReadFaults ==
  \/ DiskListFails
  \/ \E r \in Reqs : DiskListErr(r)
  \/ \E op \in {"download", "delete"}, p \in IdParams : DiskGetFails(op, p)
  \/ \E r \in Reqs : DiskGetErr(r)
  \/ \E r \in Reqs : DiskStreamFails(r)

\* The persistent server, started without MAX_FILE_SIZE.
InitF == Init /\ variant = "disk" /\ maxFileSize = FileSizeLimit(<<>>)

\* The persistent server with failing writes.
NextF == DiskNext \/ WriteFaults

SpecF == InitF /\ [][NextF]_vars

\* The persistent server with failing writes and failing reads.
NextFR == NextF \/ ReadFaults

SpecFR == InitF /\ [][NextFR]_vars

\* The steps of the requests being handled: the event loop runs every
\* callback that is due and the database thread every statement issued.
Handling ==
  \E r \in Reqs :
    \/ DiskAbort(r) \/ DiskInsert(r) \/ DiskUploadCb(r) \/ DiskListCb(r)
    \/ DiskDownloadCb(r) \/ DiskStream(r) \/ DiskDeleteCb(r)
    \/ DiskDeleteRun(r) \/ DiskDeleteDone(r)
    \/ DiskInsertFails(r) \/ DiskUploadErr(r) \/ DiskListErr(r) \/ DiskGetErr(r)
    \/ DiskStreamFails(r) \/ DiskUnlinkThrows(r)
    \/ DiskDeleteFails(r) \/ DiskDeleteErr(r)

LiveSpec == SpecFR /\ WF_vars(Handling)

\* ------------------------------------------------------------ properties
\* `last` is an answered request of kind op.
Answered(op) == last.pc = "done" /\ last.op = op

\* This step sends a response: the requests received and not being handled
\* are the answered ones.
Responds == nreq' - Len(reqs') = nreq - Len(reqs) + 1

\* The request that arrives in this step (when nreq' = nreq + 1).
Arrived == IF Len(reqs') > Len(reqs) THEN reqs'[Len(reqs')] ELSE last'

\* What a List would answer in this state.
ListResults ==
  IF variant = "memory" THEN {DocumentList(documents)} ELSE SelectOrdered(table)

\* The place of id in the order in which ids were given to records.
UploadOrder(id) == CHOOSE k \in DOMAIN assigned : assigned[k].id = id

\* The file that was uploaded for id.
Uploaded(id) == assigned[UploadOrder(id)].file

AssignedIds == {assigned[k].id : k \in DOMAIN assigned}

StoreVars == <<documents, nextId, table, sqliteSeq, files, uniqueSuffix>>

\* C1: a List response shows the records newest-first: of two records in it,
\* the one uploaded later comes first.
C1_ListNewestFirst ==
  Answered("list") /\ last.resp[1].success =>
    LET docs == last.resp[1].documents IN
    \A i, j \in DOMAIN docs :
      i < j => UploadOrder(docs[i].id) > UploadOrder(docs[j].id)

\* A Delete has removed the record of id: its DELETE has run and its answer
\* is on the way, or it was answered with success.
DeleteRan(ack, rq, id) ==
  \/ id \in ack
  \/ \E r \in DOMAIN rq :
       rq[r].op = "delete" /\ rq[r].pc = "deleted" /\ RequestedId(rq[r].param) = id

\* The records with this id in a List result.
Listed(list, id) == {i \in DOMAIN list : list[i].id = id}

\* C2 as claimed: in the step that answers an Upload with success, a List of
\* the state it leaves shows exactly one record with the returned id, with the
\* uploaded file's name and byte count, and no other upload was given that id.
C2_UploadListed ==
  [][ (Responds /\ last'.op = "upload" /\ last'.resp[1].success) =>
        LET id == last'.resp[1].document[1].id
            f == last'.in[1]
        IN
        /\ Cardinality({k \in DOMAIN assigned' : assigned'[k].id = id}) = 1
        /\ \A list \in ListResults' :
             /\ Cardinality(Listed(list, id)) = 1
             /\ \A i \in Listed(list, id) :
                  /\ list[i].filename = f.originalname
                  /\ list[i].filesize = f.content.size ]_vars

\* C2 as amended: the same, unless a Delete of the returned id has run before
\* the Upload's answer left (the persistent variant answers in the callback of
\* the INSERT, and a Delete of the new id can run before that callback).
C2_UploadListedOnce ==
  [][ (Responds /\ last'.op = "upload" /\ last'.resp[1].success) =>
        LET id == last'.resp[1].document[1].id
            f == last'.in[1]
        IN
        /\ Cardinality({k \in DOMAIN assigned' : assigned'[k].id = id}) = 1
        /\ ~DeleteRan(acked', reqs', id) =>
             \A list \in ListResults' :
               /\ Cardinality(Listed(list, id)) = 1
               /\ \A i \in Listed(list, id) :
                    /\ list[i].filename = f.originalname
                    /\ list[i].filesize = f.content.size ]_vars

C2_Witness ==
  /\ Answered("upload")
  /\ last.resp[1].success
  /\ Len(assigned) = 2
  /\ \A list \in ListResults : Cardinality(Listed(list, last.lastID)) = 1

DeleteBegan(id) ==
  \/ id \in acked
  \/ \E r \in DOMAIN reqs :
       reqs[r].op = "delete" /\ reqs[r].row # <<>> /\ reqs[r].row[1].id = id

DeclaredPdf(in) ==
  in # <<>> /\ in[1].fieldname = "document" /\ in[1].mimetype = "application/pdf"

\* The ids given out so far, as the counter of the variant tells.
IdsConsumed == IF variant = "memory" THEN nextId - 1 ELSE sqliteSeq

\* C5: an Upload declared as PDF and larger than the configured maximum is
\* answered with a client fault (400); once it is answered no record and no
\* blob of it is left, and it was given no id: the ids consumed are those of
\* the records created, none of them for a file over the maximum.
C5_OversizeRejected ==
  /\ Answered("upload") /\ DeclaredPdf(last.in) /\ last.in[1].content.size > maxFileSize =>
       /\ last.resp[1].status = 400
       /\ last.resp[1].document = <<>>
       /\ last.lastID = 0
       /\ variant = "disk" =>
            \A i \in DOMAIN last.file :
              /\ ~ExistsSync(files, last.file[i].path)
              /\ \A row \in table : row.filepath # last.file[i].path
       /\ \A i \in DOMAIN documents : documents[i].buffer # last.in[1].content
  /\ IdsConsumed = Len(assigned)
  /\ \A k \in DOMAIN assigned : assigned[k].file.content.size <= maxFileSize

C5_Witness ==
  /\ Answered("upload")
  /\ DeclaredPdf(last.in)
  /\ last.in[1].content.size > maxFileSize
  /\ last.resp[1].status = 400
  /\ variant = "disk"
  /\ last.file # <<>>

\* C6: an Upload whose part is not declared as PDF is rejected in the step in
\* which it arrives, and that step changes neither the records, nor the blobs,
\* nor the id counter, nor the file names generated.
C6_NonPdfNoMutation ==
  [][ (nreq' = nreq + 1 /\ Arrived.op = "upload" /\ Arrived.in # <<>>
         /\ Arrived.in[1].mimetype # "application/pdf") =>
        /\ Arrived.pc = "done"
        /\ ~Arrived.resp[1].success
        /\ Arrived.resp[1].status = 400
        /\ UNCHANGED StoreVars ]_vars

C6_Witness ==
  /\ Answered("upload")
  /\ last.in # <<>>
  /\ last.in[1].mimetype # "application/pdf"
  /\ LiveIds # {}

\* C7: a Delete of an id that has no record is answered not-found, the process
\* survives it, and none of its steps changes a record or a blob.
C7_DeleteMissing ==
  [][ /\ (nreq' = nreq + 1 /\ Arrived.op = "delete"
            /\ RequestedId(Arrived.param) \notin LiveIds) =>
           /\ UNCHANGED StoreVars
           /\ ~crashed'
           /\ IF Arrived.pc = "done" THEN Arrived.resp = <<NotFound("Document not found")>>
              ELSE Arrived.row = <<>>
      /\ \A r \in DOMAIN reqs :
           (reqs[r].op = "delete" /\ reqs[r].pc = "got" /\ reqs[r].row = <<>>
              /\ reqs' = Remove(reqs, r) /\ Responds) =>
             /\ last'.resp = <<NotFound("Document not found")>>
             /\ last'.op = "delete"
             /\ UNCHANGED StoreVars
             /\ ~crashed' ]_vars

C7_Witness ==
  /\ Answered("delete")
  /\ last.resp[1].status = 404
  /\ LiveIds # {}
  /\ RequestedId(last.param) \notin AssignedIds

\* C8: ids are positive and given in strictly increasing order, so none is
\* given twice, also after the record with the highest id was deleted; the id
\* an Upload returns is the one given to its record.
C8_IdsIncrease ==
  /\ \A k \in DOMAIN assigned :
       /\ assigned[k].id > 0
       /\ \A j \in DOMAIN assigned : j < k => assigned[j].id < assigned[k].id
  /\ Answered("upload") /\ last.resp[1].success =>
       /\ last.resp[1].document[1].id \in AssignedIds
       /\ Uploaded(last.resp[1].document[1].id) = last.in[1]

C8_Witness ==
  /\ Len(assigned) = 2
  /\ assigned[1].id \in acked
  /\ LiveIds = {assigned[2].id}
  /\ Answered("upload")
  /\ last.resp[1].success
  /\ last.lastID = assigned[2].id
  /\ variant = "memory"

\* C9 as claimed: every record that exists has its blob at its storage path,
\* in every state.
C9_NoRecordWithoutBlob ==
  variant = "disk" => \A row \in table : ExistsSync(files, row.filepath)

\* A Delete of the record has unlinked the blob and its DELETE has not run.
BetweenUnlinkAndDelete(row) ==
  \E r \in DOMAIN reqs :
    reqs[r].op = "delete" /\ reqs[r].pc = "delete" /\ reqs[r].row = <<row>>

\* C9 as amended: every record that exists has its blob at its storage path,
\* with the bytes and the size it was uploaded with, except while a Delete of
\* it is between its unlink and its DELETE.
C9_BlobUnlessDeleting ==
  variant = "disk" =>
    \A row \in table :
      ~BetweenUnlinkAndDelete(row) =>
        /\ ExistsSync(files, row.filepath)
        /\ ReadFile(files, row.filepath) = Uploaded(row.id).content
        /\ row.filesize = ReadFile(files, row.filepath).size

C9_Witness ==
  /\ variant = "disk"
  /\ acked # {}
  /\ table # {}
  /\ \A row \in table : ExistsSync(files, row.filepath)

\* C10: a Download that fails is answered the same way whether the id is
\* unknown or the record's blob is missing.
C10_SameNotFound ==
  Answered("download") /\ ~last.resp[1].success =>
    last.resp[1] = NotFound("Document not found")

\* The messages the handlers and the error middleware write themselves.
ClientMessages ==
  { "No file uploaded or invalid file type",
    "File too large. Maximum size is 10MB.",
    "Only PDF files are allowed",
    "Failed to save document metadata",
    "Failed to retrieve documents",
    "Database error",
    "Document not found",
    "File not found on disk",
    "Failed to delete document from database",
    "Internal server error" }

\* C11: the message of every failure response is one of the fixed messages of
\* the service, never the message of the error that caused it (which can name
\* a path of the file system).
C11_NoInternalText ==
  last.pc = "done" /\ ~last.resp[1].success =>
    last.resp[1].message \in ClientMessages

\* C12: of the Deletes of one id at most one is acknowledged: a Delete whose
\* DELETE finds no row is not answered with success, so no Delete is
\* acknowledged for an id whose Delete was acknowledged before.
C12_OneDeleteAcked ==
  [][ (Responds /\ last'.op = "delete" /\ last'.resp[1].success) =>
        RequestedId(last'.param) \notin acked ]_vars

\* C13: a Download that races with a Delete of its id ends with the whole
\* file or with not-found: the process never dies with a Download waiting for
\* a blob that the Delete has removed, and every answer of a Download is 200
\* with the bytes uploaded for the id or 404.
C13_DownloadStreamsOrNotFound ==
  /\ ~(crashed /\ \E r \in DOMAIN reqs :
                    /\ reqs[r].op = "download"
                    /\ reqs[r].pc = "open"
                    /\ ~ExistsSync(files, reqs[r].row[1].filepath))
  /\ variant = "disk" /\ Answered("download") =>
       \/ last.resp[1].status = 404
       \/ /\ last.resp[1].status = 200
          /\ last.resp[1].body = <<Uploaded(last.row[1].id).content>>

\* A step in which the unlink of a Delete throws.
UnlinkThrew == crashed' /\ ~crashed /\ faults' = faults + 1

\* Request r, a Delete, is where the callback of its SELECT unlinks the blob
\* of the row it found.
Unlinking(r) ==
  /\ reqs[r].op = "delete"
  /\ reqs[r].pc = "got"
  /\ reqs[r].row # <<>>
  /\ ExistsSync(files, reqs[r].row[1].filepath)

\* C14, the order: a step that removes a row finds its blob removed already;
\* an unlink that throws leaves the table as it is, with the row of the blob
\* in it; a DELETE that fails leaves the table as it is, and the Delete is
\* answered with a server fault (500) in a step that leaves the table as it
\* is.
C14_Order ==
  [][ /\ \A row \in table \ table' :
           ~ExistsSync(files, row.filepath) /\ ~ExistsSync(files', row.filepath)
      /\ UnlinkThrew =>
           /\ table' = table
           /\ \A r \in DOMAIN reqs : Unlinking(r) => reqs[r].row[1] \in table'
      /\ \A r \in DOMAIN reqs :
           /\ (reqs[r].pc = "delete" /\ reqs' = [reqs EXCEPT ![r].pc = "deleteerr"])
                => table' = table
           /\ (reqs[r].pc = "deleteerr" /\ reqs' = Remove(reqs, r) /\ Responds) =>
                /\ last'.op = "delete"
                /\ last'.resp[1].status = 500
                /\ ~last'.resp[1].success
                /\ table' = table ]_vars

\* The Deletes whose DELETE failed: being answered, or answered last.
FailedDeletes ==
  {reqs[r] : r \in {i \in DOMAIN reqs : reqs[i].pc = "deleteerr"}}
    \cup (IF Answered("delete") /\ last.log # <<>> /\ last.row # <<>>
          THEN {last} ELSE {})

\* C14 as claimed: the order, and after a DELETE that failed the record is
\* listed.
C14_BlobBeforeRow ==
  /\ C14_Order
  /\ [](\A q \in FailedDeletes :
          \A list \in ListResults : Listed(list, q.row[1].id) # {})

\* C14 as amended: the order, and after a DELETE that failed the record is
\* listed unless another Delete of the same id has removed the row.
C14_BlobBeforeRowUnlessDeleted ==
  /\ C14_Order
  /\ [](\A q \in FailedDeletes :
          ~DeleteRan(acked, reqs, q.row[1].id) =>
            \A list \in ListResults : Listed(list, q.row[1].id) # {})

C14_Witness ==
  /\ Answered("delete")
  /\ last.resp[1].status = 500
  /\ last.row # <<>>
  /\ last.row[1] \in table
  /\ ~ExistsSync(files, last.row[1].filepath)

\* `last` is an Upload whose blob was written and whose INSERT failed.
InsertFailed ==
  /\ Answered("upload")
  /\ last.file # <<>>
  /\ ~TooLarge(last.in, maxFileSize)
  /\ last.lastID = 0

\* C15: an Upload whose INSERT failed after its blob was written is answered
\* with a server fault (500), was given no id, has no record in the table and
\* in no List result, its blob stays in the uploads directory with the bytes
\* received, and the handler logged the failure; the same holds of the record
\* and the blob while the callback of the failed INSERT is due.
C15_InsertFailureKeepsBlob ==
  /\ InsertFailed =>
       /\ last.resp[1].status = 500
       /\ ~last.resp[1].success
       /\ last.resp[1].document = <<>>
       /\ last.log # <<>>
       /\ \A row \in table : row.filepath # last.file[1].path
       /\ \A list \in ListResults :
            \A i \in DOMAIN list : list[i].filepath # last.file[1].path
       /\ ExistsSync(files, last.file[1].path)
       /\ ReadFile(files, last.file[1].path) = last.in[1].content
  /\ \A r \in DOMAIN reqs :
       reqs[r].pc = "inserterr" =>
         /\ \A row \in table : row.filepath # reqs[r].file[1].path
         /\ ExistsSync(files, reqs[r].file[1].path)
  /\ IdsConsumed = Len(assigned)

C15_Witness ==
  /\ InsertFailed
  /\ last.resp[1].status = 500
  /\ ExistsSync(files, last.file[1].path)
  /\ table # {}

\* C16: every request is answered, and answered once: no request has two
\* responses, and whenever requests are being handled a state follows in
\* which none is.
C16_EveryRequestAnswered ==
  /\ [](Len(last.resp) <= 1)
  /\ (reqs # <<>>) ~> (reqs = <<>>)

====
